---- MODULE Spec2Model ----
(***************************************************************************)
(* Model of mdstats.py: the pattern-statistics pipeline mdstats_df and the *)
(* helpers it calls (list_records, get_xpath, mask_xpath, maybe_xfunc,     *)
(* maybe_xslt, display_tree, escape_xml, hash_id).                         *)
(*                                                                         *)
(* A Python str is a sequence of one-character strings, so that the        *)
(* regular-expression rewrites of display_tree, the escaping and the       *)
(* code-point order pandas sorts group keys by are computed, not assumed.  *)
(* An element is a record [tag, text, kids]; text = <<>> stands for None.  *)
(* Attributes, tails and namespaces are not modelled: the path expressions *)
(* of the model select elements by tag only.                               *)
(***************************************************************************)
EXTENDS Integers, Sequences, FiniteSets, TLC

VARIABLES
  records_path,   \* the corpus directory: a sequence of directory entries
  args,           \* the arguments mdstats_df was called with
  pc,             \* position in mdstats_df (the line about to run), "done" or "failed"
  stages,         \* iso_extract, iso_mask, dcat_extract, normalize, transform, convert
  df,             \* the data frame: a sequence of rows
  extra_cols,     \* the optional columns of the result
  error,          \* the exception that ended the run, "none" if none
  errline,        \* the source line that raised it, 0 if none
  printed,        \* the count printed by line 219, -1 before
  nparsed,        \* number of record documents read and parsed so far
  calls,          \* history: every application of a stage function
  displayed       \* history: every application of display_tree

vars == <<records_path, args, pc, stages, df, extra_cols, error, errline,
          printed, nparsed, calls, displayed>>

(***************************************************************************)
(* Bounds.                                                                 *)
(***************************************************************************)
MaxEntries == 3

(***************************************************************************)
(* Strings.                                                                *)
(***************************************************************************)
None == "None"

HEAD_TAG == <<"_", "R", "O", "O", "T">>
ERROR_TAG == <<"_", "E", "R", "R", "O", "R">>

NONE_TOKEN == <<"N", "O", "N", "E">>

\* Unicode code points of the characters the model's strings are made of.
Ord(ch) ==
  CASE ch = "\n" -> 10  [] ch = " " -> 32   [] ch = "#" -> 35   [] ch = "&" -> 38
    [] ch = "/" -> 47   [] ch = ";" -> 59   [] ch = "<" -> 60   [] ch = ">" -> 62
    [] ch = "E" -> 69   [] ch = "N" -> 78   [] ch = "O" -> 79   [] ch = "R" -> 82
    [] ch = "T" -> 84   [] ch = "_" -> 95   [] ch = "a" -> 97   [] ch = "b" -> 98
    [] ch = "c" -> 99   [] ch = "d" -> 100  [] ch = "g" -> 103  [] ch = "l" -> 108
    [] ch = "m" -> 109  [] ch = "p" -> 112  [] ch = "r" -> 114  [] ch = "t" -> 116
    [] ch = "x" -> 120  [] ch = "y" -> 121  [] ch = "z" -> 122

\* Python's str < str: lexicographic by code point, a proper prefix first.
RECURSIVE StrLess(_, _)
StrLess(s, t) ==
  IF t = <<>> THEN FALSE
  ELSE IF s = <<>> THEN TRUE
  ELSE IF Ord(Head(s)) # Ord(Head(t)) THEN Ord(Head(s)) < Ord(Head(t))
  ELSE StrLess(Tail(s), Tail(t))

StartsWithAt(s, i, p) ==
  /\ i + Len(p) - 1 <= Len(s)
  /\ SubSeq(s, i, i + Len(p) - 1) = p

EndsWith(s, p) ==
  /\ Len(p) <= Len(s)
  /\ SubSeq(s, Len(s) - Len(p) + 1, Len(s)) = p

DropLast(s, n) == SubSeq(s, 1, Len(s) - n)

\* s.replace(ch, rep) for a single character ch.
RECURSIVE ReplaceChar(_, _, _)
ReplaceChar(s, ch, rep) ==
  IF s = <<>> THEN <<>>
  ELSE (IF Head(s) = ch THEN rep ELSE <<Head(s)>>) \o ReplaceChar(Tail(s), ch, rep)

\* xml.sax.saxutils.escape: "&", ">" and "<" replaced, "&" first.
saxutils_escape(s) ==
  ReplaceChar(
    ReplaceChar(
      ReplaceChar(s, "&", <<"&", "a", "m", "p", ";">>),
      ">", <<"&", "g", "t", ";">>),
    "<", <<"&", "l", "t", ";">>)

escape_xml(s) == ReplaceChar(saxutils_escape(s), "\n", <<"<", "b", "r", "/", ">">>)

(***************************************************************************)
(* Trees and their serialisation (etree.indent, then etree.tostring with   *)
(* pretty_print).                                                          *)
(***************************************************************************)
Elem(tag, text, kids) == [tag |-> tag, text |-> text, kids |-> kids]

Indent(level) == [i \in 1..(2 * level) |-> " "]

OpenTag(tag) == <<"<">> \o tag \o <<">">>
CloseTag(tag) == <<"<", "/">> \o tag \o <<">">>
EmptyTag(tag) == <<"<">> \o tag \o <<"/", ">">>

RECURSIVE tostring_elem(_, _)
RECURSIVE tostring_kids(_, _)
tostring_elem(e, level) ==
  IF e.kids = <<>>
  THEN IF e.text = <<>>
       THEN EmptyTag(e.tag)
       ELSE OpenTag(e.tag) \o saxutils_escape(e.text) \o CloseTag(e.tag)
  ELSE OpenTag(e.tag) \o <<"\n">> \o tostring_kids(e.kids, level + 1)
       \o Indent(level) \o CloseTag(e.tag)
tostring_kids(kids, level) ==
  IF kids = <<>> THEN <<>>
  ELSE Indent(level) \o tostring_elem(Head(kids), level) \o <<"\n">>
       \o tostring_kids(Tail(kids), level)

tostring(root) == tostring_elem(root, 0) \o <<"\n">>

(***************************************************************************)
(* The four re.sub calls of display_tree.                                  *)
(***************************************************************************)
\* Index of the first ">" of s at or after i, 0 if there is none.
RECURSIVE FindGT(_, _)
FindGT(s, i) ==
  IF i > Len(s) THEN 0 ELSE IF s[i] = ">" THEN i ELSE FindGT(s, i + 1)

\* re.sub(f"<{tag}[^>]*>\n?", '', s), scanning from index i.
RECURSIVE SubOpenTag(_, _, _)
SubOpenTag(s, i, tag) ==
  IF i > Len(s) THEN <<>>
  ELSE LET j == IF StartsWithAt(s, i, <<"<">> \o tag)
                THEN FindGT(s, i + 1 + Len(tag)) ELSE 0
       IN IF j = 0
          THEN <<s[i]>> \o SubOpenTag(s, i + 1, tag)
          ELSE SubOpenTag(s, IF j < Len(s) /\ s[j + 1] = "\n" THEN j + 2 ELSE j + 1, tag)

\* re.sub(p + "$\n?", rep, s) for a literal p: without re.MULTILINE "$" matches
\* at the end of the string and just before a newline that ends the string.
SubAtEnd(s, p, rep) ==
  IF EndsWith(s, p \o <<"\n">>) THEN DropLast(s, Len(p) + 1) \o rep
  ELSE IF EndsWith(s, p) THEN DropLast(s, Len(p)) \o rep
  ELSE s

\* re.sub('(\n|^)  ', '\\1', s), scanning from index i.
RECURSIVE SubDeindent(_, _)
SubDeindent(s, i) ==
  IF i > Len(s) THEN <<>>
  ELSE IF i = 1 /\ StartsWithAt(s, 1, <<" ", " ">>)
       THEN SubDeindent(s, 3)
  ELSE IF StartsWithAt(s, i, <<"\n", " ", " ">>)
       THEN <<"\n">> \o SubDeindent(s, i + 3)
  ELSE <<s[i]>> \o SubDeindent(s, i + 1)

display_tree(root) ==
  LET s0 == tostring(root)
      s1 == SubOpenTag(s0, 1, root.tag)
      s2 == SubAtEnd(s1, CloseTag(root.tag), <<>>)
      s3 == SubAtEnd(s2, EmptyTag(root.tag), NONE_TOKEN)
      s4 == SubDeindent(s3, 1)
  IN escape_xml(s4)

(***************************************************************************)
(* The corpus and the path expressions and stylesheets of the model.       *)
(***************************************************************************)
TagC == <<"c">>
TagT == <<"t">>
TagZ == <<"z">>

\* Contents of the metadata.xml files, as etree.fromstring parses them.
DocA == Elem(<<"d">>, <<>>, <<Elem(TagC, <<>>, <<Elem(TagT, <<"x">>, <<>>)>>)>>)
DocZ == Elem(<<"d">>, <<>>, <<Elem(TagC, <<>>, <<Elem(TagZ, <<>>, <<>>)>>)>>)
\* a document whose root element is itself named _ERROR
DocS == Elem(ERROR_TAG, <<"#">>, <<>>)

\* Kinds of directory entry: a record directory holding one of the documents,
\* or a directory without metadata/metadata.xml.
EntryKinds == {"A", "Z", "S", "nomd"}

Corpora == UNION {[1..n -> EntryKinds] : n \in 0..MaxEntries}

read_bytes(path) ==
  CASE path = "A" -> DocA [] path = "Z" -> DocZ [] path = "S" -> DocS

\* Path expressions: blank ones, one that does not compile, and element
\* selections by tag.
XPATH_INVALID == "("
ExtractXPaths == {"", XPATH_INVALID, "//c"}
MaskXPaths == {None, XPATH_INVALID, "//t | //z"}
DcatXPaths == {"  ", XPATH_INVALID, "//t"}

\* not xpath or not xpath.strip()
IsBlank(xpath) == xpath \in {None, "", "  "}

SelectedTags(xpath) ==
  CASE xpath = "//c" -> {TagC}
    [] xpath = "//t" -> {TagT}
    [] xpath = "//t | //z" -> {TagT, TagZ}

\* root.xpath(xpath): the matching elements in document order.
RECURSIVE XPathEval(_, _)
RECURSIVE XPathEvalKids(_, _)
XPathEval(e, tags) ==
  (IF e.tag \in tags THEN <<e>> ELSE <<>>) \o XPathEvalKids(e.kids, tags)
XPathEvalKids(kids, tags) ==
  IF kids = <<>> THEN <<>>
  ELSE XPathEval(Head(kids), tags) \o XPathEvalKids(Tail(kids), tags)

\* The tree left when every matched element is removed from its parent.
RECURSIVE RemoveMatches(_, _)
RECURSIVE RemoveMatchesKids(_, _)
RemoveMatches(e, tags) == Elem(e.tag, e.text, RemoveMatchesKids(e.kids, tags))
RemoveMatchesKids(kids, tags) ==
  IF kids = <<>> THEN <<>>
  ELSE (IF Head(kids).tag \in tags THEN <<>> ELSE <<RemoveMatches(Head(kids), tags)>>)
       \o RemoveMatchesKids(Tail(kids), tags)

RECURSIVE HasTag(_, _)
HasTag(e, tag) == e.tag = tag \/ \E i \in 1..Len(e.kids) : HasTag(e.kids[i], tag)

\* Stylesheet files on disk: copy.xsl is the identity transform, strict.xsl
\* copies too but terminates with a message on a tree holding a <z> element.
Files == {"copy.xsl", "strict.xsl"}
NormalizerPaths == {"missing.xsl", "copy.xsl", "strict.xsl"}
TransformerPaths == {None, "copy.xsl", "strict.xsl"}
ConverterPaths == {None, "copy.xsl", "strict.xsl"}

is_file(path) == path \in Files

ERR_MSG == <<"b", "a", "d">>

\* transform(root): [raised, node]
XSLTApply(sheet, root) ==
  IF sheet = "strict.xsl" /\ HasTag(root, TagZ)
  THEN [raised |-> "XSLTApplyError", msg |-> ERR_MSG, node |-> root]
  ELSE [raised |-> "none", msg |-> <<>>, node |-> root]

(***************************************************************************)
(* The stage functions. Each returns [node, raised, evald, caught]: the    *)
(* tree returned, the exception raised to the caller ("none" if none),     *)
(* whether the path expression or transform was evaluated on the tree, and *)
(* whether an apply failure was caught and turned into a sentinel.         *)
(***************************************************************************)
Result(node, raised, evald, caught) ==
  [node |-> node, raised |-> raised, evald |-> evald, caught |-> caught]

\* get_xpath without its short-circuit on the sentinel (lines 73-74 dropped)
get_xpath_unguarded(root, xpath) ==
  IF xpath = XPATH_INVALID THEN Result(root, "XPathEvalError", TRUE, FALSE)
  ELSE Result(Elem(HEAD_TAG, <<>>, XPathEval(root, SelectedTags(xpath))),
              "none", TRUE, FALSE)

get_xpath(root, xpath) ==
  IF root.tag = ERROR_TAG THEN Result(root, "none", FALSE, FALSE)
  ELSE IF xpath = XPATH_INVALID THEN Result(root, "XPathEvalError", TRUE, FALSE)
  ELSE Result(Elem(HEAD_TAG, <<>>, XPathEval(root, SelectedTags(xpath))),
              "none", TRUE, FALSE)

mask_xpath(root, xpath) ==
  IF root.tag = ERROR_TAG THEN Result(root, "none", FALSE, FALSE)
  ELSE IF xpath = XPATH_INVALID THEN Result(root, "XPathEvalError", TRUE, FALSE)
  ELSE IF root.tag \in SelectedTags(xpath)
       THEN Result(root, "AttributeError", TRUE, FALSE)  \* e.getparent() is None
  ELSE Result(RemoveMatches(root, SelectedTags(xpath)), "none", TRUE, FALSE)

\* _transform without its try/except: the apply failure reaches the caller
xslt_transform_raises(sheet, root) ==
  IF root.tag = ERROR_TAG THEN Result(root, "none", FALSE, FALSE)
  ELSE LET r == XSLTApply(sheet, root)
       IN Result(r.node, r.raised, TRUE, FALSE)

\* _transform of maybe_xslt
xslt_transform(sheet, root) ==
  IF root.tag = ERROR_TAG THEN Result(root, "none", FALSE, FALSE)
  ELSE LET r == XSLTApply(sheet, root)
       IN IF r.raised = "XSLTApplyError"
          THEN Result(Elem(ERROR_TAG, r.msg, <<>>), "none", TRUE, TRUE)
          ELSE Result(r.node, "none", TRUE, FALSE)

\* A stage is a closure [func, arg], or NoFunc for Python's None.
NoFunc == [func |-> "None", arg |-> ""]

maybe_xfunc(xfunc, xpath) ==
  IF IsBlank(xpath) THEN NoFunc ELSE [func |-> xfunc, arg |-> xpath]

maybe_xslt(path) ==
  IF path = None \/ ~is_file(path) THEN NoFunc ELSE [func |-> "xslt", arg |-> path]

Apply(f, root) ==
  CASE f.func = "get_xpath" -> get_xpath(root, f.arg)
    [] f.func = "mask_xpath" -> mask_xpath(root, f.arg)
    [] f.func = "xslt" -> xslt_transform(f.arg, root)

hash_id(s) == <<"md5", s>>

(***************************************************************************)
(* Data-frame helpers (pandas).                                            *)
(***************************************************************************)
Frame(columns, rows) == [columns |-> columns, rows |-> rows]

InSeq(x, s) == \E i \in 1..Len(s) : s[i] = x

RECURSIVE SumSeq(_)
SumSeq(s) == IF s = <<>> THEN 0 ELSE Head(s) + SumSeq(Tail(s))

\* list_records: the directory entries that hold a metadata document, in
\* iteration order; r_id is the entry's name (here its position).
RECURSIVE list_records_from(_, _)
list_records_from(path, i) ==
  IF i > Len(path) THEN <<>>
  ELSE (IF path[i] = "nomd" THEN <<>> ELSE <<[r_id |-> i, path |-> path[i]]>>)
       \o list_records_from(path, i + 1)
list_records(path) == list_records_from(path, 1)

\* pd.DataFrame.from_records(iterator): no row gives a frame without columns.
from_records(recs) ==
  IF recs = <<>> THEN Frame(<<>>, <<>>) ELSE Frame(<<"r_id", "path">>, recs)

\* Series.map(f) over the values vals (keys names each value in the history):
\* f is applied to the values in order, up to the first one that raises.
\* A None f raises TypeError on a non-empty series.
SeriesMap(f, vals, keys, stage, col, line) ==
  IF f = NoFunc
  THEN [raised |-> IF vals = <<>> THEN "none" ELSE "TypeError",
        out |-> vals, log |-> <<>>]
  ELSE LET res == [i \in 1..Len(vals) |-> Apply(f, vals[i])]
           bad == {i \in 1..Len(vals) : res[i].raised # "none"}
           stop == IF bad = {} THEN Len(vals)
                   ELSE CHOOSE i \in bad : \A j \in bad : i <= j
       IN [raised |-> IF bad = {} THEN "none" ELSE res[stop].raised,
           out |-> [i \in 1..Len(vals) |-> res[i].node],
           log |-> [i \in 1..stop |->
                      [stage |-> stage, col |-> col, line |-> line, key |-> keys[i],
                       outtag |-> res[i].node.tag,
                       outtext |-> res[i].node.text,
                       sentinel |-> vals[i].tag = ERROR_TAG,
                       same |-> res[i].node = vals[i],
                       evald |-> res[i].evald,
                       caught |-> res[i].caught,
                       raised |-> res[i].raised]]]

Column(rows, c) == [i \in 1..Len(rows) |-> rows[i][c]]

\* rows with column c set to vals
SetColumn(rows, c, vals) ==
  [i \in 1..Len(rows) |-> (c :> vals[i]) @@ rows[i]]

RecordKeys(rows) == [i \in 1..Len(rows) |-> <<rows[i].r_id>>]
GroupKeys(rows) == [i \in 1..Len(rows) |-> <<rows[i].pattern, rows[i].extract>>]

Shown(trees) ==
  {[empty |-> trees[i].kids = <<>> /\ trees[i].text = <<>>,
    tag |-> trees[i].tag,
    text |-> display_tree(trees[i])] : i \in 1..Len(trees)}

\* Order of the group keys under groupby(['pattern', 'extract'], sort=True).
KeyLess(k1, k2) ==
  \/ StrLess(k1[1], k2[1])
  \/ k1[1] = k2[1] /\ StrLess(k1[2], k2[2])

RECURSIVE SortedKeys(_)
SortedKeys(K) ==
  IF K = {} THEN <<>>
  ELSE LET m == CHOOSE k \in K : \A o \in K \ {k} : KeyLess(k, o)
       IN <<m>> \o SortedKeys(K \ {m})

\* members selected by pattern text alone
RECURSIVE Members_by_pattern(_, _)
Members_by_pattern(rows, k) ==
  IF rows = <<>> THEN <<>>
  ELSE (IF Head(rows).pattern = k[1] THEN <<Head(rows)>> ELSE <<>>)
       \o Members_by_pattern(Tail(rows), k)

\* the subsequence of the rows whose key is k
RECURSIVE Members(_, _)
Members(rows, k) ==
  IF rows = <<>> THEN <<>>
  ELSE (IF <<Head(rows).pattern, Head(rows).extract>> = k THEN <<Head(rows)>> ELSE <<>>)
       \o Members(Tail(rows), k)

\* no grouping: one row per record, in key order
RECURSIVE Concat(_)
Concat(ss) == IF ss = <<>> THEN <<>> ELSE Head(ss) \o Concat(Tail(ss))
GroupBy_per_record(rows) ==
  LET keys == SortedKeys({<<rows[i].pattern, rows[i].extract>> : i \in 1..Len(rows)})
      ordered == Concat([g \in 1..Len(keys) |-> Members(rows, keys[g])])
  IN [i \in 1..Len(ordered) |->
        [pattern |-> ordered[i].pattern,
         extract |-> ordered[i].extract,
         count |-> 1,
         transform |-> ordered[i].iso_tree,
         r_ids |-> <<ordered[i].r_id>>]]

\* groupby(['pattern', 'extract']).agg(count, transform, r_ids).reset_index()
GroupBy(rows) ==
  LET keys == SortedKeys({<<rows[i].pattern, rows[i].extract>> : i \in 1..Len(rows)})
  IN [g \in 1..Len(keys) |->
        LET ms == Members(rows, keys[g])
        IN [pattern |-> keys[g][1],
            extract |-> keys[g][2],
            count |-> Len(ms),
            transform |-> ms[1].iso_tree,
            r_ids |-> Column(ms, "r_id")]]

\* the sum taken over the whole frame instead of per pattern
PatternTotals_global(rows) ==
  [i \in 1..Len(rows) |-> SumSeq(Column(rows, "count"))]

\* df.groupby('pattern')['count'].transform('sum')
PatternTotals(rows) ==
  [i \in 1..Len(rows) |->
     SumSeq([j \in 1..Len(rows) |->
               IF rows[j].pattern = rows[i].pattern THEN rows[j].count ELSE 0])]

\* the sort with ascending left at its default
Before_ascending(r1, r2) ==
  \/ r1.total < r2.total
  \/ r1.total = r2.total /\ r1.count < r2.count

\* sort_values(['total', 'count'], ascending=False): a stable sort.
Before(r1, r2) ==
  \/ r1.total > r2.total
  \/ r1.total = r2.total /\ r1.count > r2.count

RECURSIVE StableSort(_)
StableSort(rows) ==
  IF rows = <<>> THEN <<>>
  ELSE LET first == CHOOSE i \in 1..Len(rows) :
                      /\ \A j \in 1..Len(rows) : ~Before(rows[j], rows[i])
                      /\ \A j \in 1..(i - 1) : Before(rows[i], rows[j])
           rest == [j \in 1..(Len(rows) - 1) |->
                      IF j < first THEN rows[j] ELSE rows[j + 1]]
       IN <<rows[first]>> \o StableSort(rest)

sort_values(rows) == StableSort(rows)

\* df.reindex(columns=cols)
Reindex(rows, cols) ==
  [i \in 1..Len(rows) |-> [c \in {cols[j] : j \in 1..Len(cols)} |-> rows[i][c]]]

(***************************************************************************)
(* mdstats_df, one action per statement.                                   *)
(***************************************************************************)
Init ==
  /\ records_path \in Corpora
  /\ args \in [iso_extract_xpath : ExtractXPaths,
               iso_mask_xpath : MaskXPaths,
               dcat_extract_xpath : DcatXPaths,
               normalizer_path : NormalizerPaths,
               transformer_path : TransformerPaths,
               converter_path : ConverterPaths]
  /\ pc = "L168"
  /\ stages = [iso_extract |-> NoFunc, iso_mask |-> NoFunc, dcat_extract |-> NoFunc,
               normalize |-> NoFunc, transform |-> NoFunc, convert |-> NoFunc]
  /\ df = Frame(<<>>, <<>>)
  /\ extra_cols = <<>>
  /\ error = "none"
  /\ errline = 0
  /\ printed = -1
  /\ nparsed = 0
  /\ calls = <<>>
  /\ displayed = {}

Raise(exc, line) ==
  /\ pc' = "failed"
  /\ error' = exc
  /\ errline' = line

Goto(label) ==
  /\ pc' = label
  /\ UNCHANGED <<error, errline>>

\* lines 168-174
BuildStages ==
  /\ pc = "L168"
  /\ stages' = [iso_extract |-> maybe_xfunc("get_xpath", args.iso_extract_xpath),
                iso_mask |-> maybe_xfunc("mask_xpath", args.iso_mask_xpath),
                dcat_extract |-> maybe_xfunc("get_xpath", args.dcat_extract_xpath),
                normalize |-> maybe_xslt(args.normalizer_path),
                transform |-> maybe_xslt(args.transformer_path),
                convert |-> maybe_xslt(args.converter_path)]
  /\ Goto("L176")
  /\ UNCHANGED <<records_path, args, df, extra_cols, printed, nparsed, calls, displayed>>

\* lines 176-177
ListRecords ==
  /\ pc = "L176"
  /\ df' = from_records(list_records(records_path))
  /\ Goto("L179")
  /\ UNCHANGED <<records_path, args, stages, extra_cols, printed, nparsed, calls, displayed>>

\* line 179
ParseDocuments ==
  /\ pc = "L179"
  /\ IF ~InSeq("path", df.columns)
     THEN /\ Raise("KeyError", 179)
          /\ UNCHANGED <<df, nparsed>>
     ELSE /\ df' = Frame(df.columns \o <<"iso_tree">>,
                         SetColumn(df.rows, "iso_tree",
                                   [i \in 1..Len(df.rows) |-> read_bytes(df.rows[i].path)]))
          /\ nparsed' = nparsed + Len(df.rows)
          /\ Goto("L180")
  /\ UNCHANGED <<records_path, args, stages, extra_cols, printed, calls, displayed>>

\* line 180
Extract ==
  /\ pc = "L180"
  /\ LET m == SeriesMap(stages.iso_extract, Column(df.rows, "iso_tree"),
                        RecordKeys(df.rows), "iso_extract", "extract", 180)
     IN /\ calls' = calls \o m.log
        /\ IF m.raised # "none"
           THEN /\ Raise(m.raised, 180)
                /\ UNCHANGED df
           ELSE /\ df' = Frame(df.columns \o <<"extract">>,
                               SetColumn(df.rows, "extract", m.out))
                /\ Goto("L181")
  /\ UNCHANGED <<records_path, args, stages, extra_cols, printed, nparsed, displayed>>

\* line 181
Mask ==
  /\ pc = "L181"
  /\ LET m == SeriesMap(stages.iso_mask, Column(df.rows, "extract"),
                        RecordKeys(df.rows), "iso_mask", "pattern", 181)
     IN /\ calls' = calls \o m.log
        /\ IF m.raised # "none"
           THEN /\ Raise(m.raised, 181)
                /\ UNCHANGED df
           ELSE /\ df' = Frame(df.columns \o <<"pattern">>,
                               SetColumn(df.rows, "pattern", m.out))
                /\ Goto("L182")
  /\ UNCHANGED <<records_path, args, stages, extra_cols, printed, nparsed, displayed>>

\* line 182: normalize maps over the pattern column, then the extract column;
\* display_tree then maps over both.
NormalizeDisplay ==
  /\ pc = "L182"
  /\ LET mp == SeriesMap(stages.normalize, Column(df.rows, "pattern"),
                         RecordKeys(df.rows), "normalize", "pattern", 182)
         me == SeriesMap(stages.normalize, Column(df.rows, "extract"),
                         RecordKeys(df.rows), "normalize", "extract", 182)
     IN IF mp.raised # "none"
        THEN /\ calls' = calls \o mp.log
             /\ Raise(mp.raised, 182)
             /\ UNCHANGED <<df, displayed>>
        ELSE IF me.raised # "none"
        THEN /\ calls' = calls \o mp.log \o me.log
             /\ Raise(me.raised, 182)
             /\ UNCHANGED <<df, displayed>>
        ELSE /\ calls' = calls \o mp.log \o me.log
             /\ displayed' = displayed \cup Shown(mp.out) \cup Shown(me.out)
             /\ df' = Frame(df.columns,
                            SetColumn(SetColumn(df.rows, "pattern",
                                                [i \in 1..Len(mp.out) |-> display_tree(mp.out[i])]),
                                      "extract",
                                      [i \in 1..Len(me.out) |-> display_tree(me.out[i])]))
             /\ Goto("L184")
  /\ UNCHANGED <<records_path, args, stages, extra_cols, printed, nparsed>>

\* lines 184-194
Group ==
  /\ pc = "L184"
  /\ df' = Frame(<<"pattern", "extract", "count", "transform", "r_ids">>, GroupBy(df.rows))
  /\ Goto("L195")
  /\ UNCHANGED <<records_path, args, stages, extra_cols, printed, nparsed, calls, displayed>>

\* line 195
Total ==
  /\ pc = "L195"
  /\ df' = Frame(df.columns \o <<"total">>,
                 SetColumn(df.rows, "total", PatternTotals(df.rows)))
  /\ Goto("L197")
  /\ UNCHANGED <<records_path, args, stages, extra_cols, printed, nparsed, calls, displayed>>

\* lines 197-200
Transform ==
  /\ pc = "L197"
  /\ IF stages.transform = NoFunc
     THEN /\ Goto("L202")
          /\ UNCHANGED <<df, extra_cols, calls>>
     ELSE LET m == SeriesMap(stages.transform, Column(df.rows, "transform"),
                             GroupKeys(df.rows), "transform", "transform", 200)
          IN /\ calls' = calls \o m.log
             /\ extra_cols' = extra_cols \o <<"transform">>
             /\ IF m.raised # "none"
                THEN /\ Raise(m.raised, 200)
                     /\ UNCHANGED df
                ELSE /\ df' = Frame(df.columns, SetColumn(df.rows, "transform", m.out))
                     /\ Goto("L202")
  /\ UNCHANGED <<records_path, args, stages, printed, nparsed, displayed>>

\* lines 202-207
Convert ==
  /\ pc = "L202"
  /\ IF stages.convert = NoFunc
     THEN /\ Goto("L208")
          /\ UNCHANGED <<df, extra_cols, calls, displayed>>
     ELSE LET mc == SeriesMap(stages.convert, Column(df.rows, "transform"),
                              GroupKeys(df.rows), "convert", "dcat", 204)
              mx == IF stages.dcat_extract = NoFunc
                    THEN [raised |-> "none", out |-> mc.out, log |-> <<>>]
                    ELSE SeriesMap(stages.dcat_extract, mc.out,
                                   GroupKeys(df.rows), "dcat_extract", "dcat", 206)
          IN /\ extra_cols' = extra_cols \o <<"dcat">>
             /\ IF mc.raised # "none"
                THEN /\ calls' = calls \o mc.log
                     /\ Raise(mc.raised, 204)
                     /\ UNCHANGED <<df, displayed>>
                ELSE IF mx.raised # "none"
                THEN /\ calls' = calls \o mc.log \o mx.log
                     /\ Raise(mx.raised, 206)
                     /\ df' = Frame(df.columns \o <<"dcat">>,
                                    SetColumn(df.rows, "dcat", mc.out))
                     /\ UNCHANGED displayed
                ELSE /\ calls' = calls \o mc.log \o mx.log
                     /\ displayed' = displayed \cup Shown(mx.out)
                     /\ df' = Frame(df.columns \o <<"dcat">>,
                                    SetColumn(df.rows, "dcat",
                                              [i \in 1..Len(mx.out) |-> display_tree(mx.out[i])]))
                     /\ Goto("L208")
  /\ UNCHANGED <<records_path, args, stages, printed, nparsed>>

\* lines 208-209
DisplayTransform ==
  /\ pc = "L208"
  /\ IF stages.transform = NoFunc
     THEN /\ Goto("L211")
          /\ UNCHANGED <<df, calls, displayed>>
     ELSE LET m == SeriesMap(stages.iso_extract, Column(df.rows, "transform"),
                             GroupKeys(df.rows), "iso_extract", "transform", 209)
          IN /\ calls' = calls \o m.log
             /\ IF m.raised # "none"
                THEN /\ Raise(m.raised, 209)
                     /\ UNCHANGED <<df, displayed>>
                ELSE /\ displayed' = displayed \cup Shown(m.out)
                     /\ df' = Frame(df.columns,
                                    SetColumn(df.rows, "transform",
                                              [i \in 1..Len(m.out) |-> display_tree(m.out[i])]))
                     /\ Goto("L211")
  /\ UNCHANGED <<records_path, args, stages, extra_cols, printed, nparsed>>

\* line 211
Sort ==
  /\ pc = "L211"
  /\ df' = Frame(df.columns, sort_values(df.rows))
  /\ Goto("L214")
  /\ UNCHANGED <<records_path, args, stages, extra_cols, printed, nparsed, calls, displayed>>

\* lines 214-217
HashAndReindex ==
  /\ pc = "L214"
  /\ LET cols == <<"p_id", "e_id", "total", "count", "pattern", "extract">>
                 \o extra_cols \o <<"r_ids">>
         hashed == SetColumn(SetColumn(df.rows, "p_id",
                                       [i \in 1..Len(df.rows) |-> hash_id(df.rows[i].pattern)]),
                             "e_id",
                             [i \in 1..Len(df.rows) |-> hash_id(df.rows[i].extract)])
     IN df' = Frame(cols, Reindex(hashed, cols))
  /\ Goto("L219")
  /\ UNCHANGED <<records_path, args, stages, extra_cols, printed, nparsed, calls, displayed>>

\* lines 219-220
PrintAndReturn ==
  /\ pc = "L219"
  /\ printed' = SumSeq(Column(df.rows, "count"))
  /\ Goto("done")
  /\ UNCHANGED <<records_path, args, stages, df, extra_cols, nparsed, calls, displayed>>

Next ==
  \/ BuildStages
  \/ ListRecords
  \/ ParseDocuments
  \/ Extract
  \/ Mask
  \/ NormalizeDisplay
  \/ Group
  \/ Total
  \/ Transform
  \/ Convert
  \/ DisplayTransform
  \/ Sort
  \/ HashAndReindex
  \/ PrintAndReturn

Spec == Init /\ [][Next]_vars

(***************************************************************************)
(* Properties.                                                             *)
(***************************************************************************)
Rows == df.rows
NRows == Len(df.rows)
Returned == pc = "done"

\* the records list_records yields: the entries holding a metadata document
Enumerated == {i \in 1..Len(records_path) : records_path[i] # "nomd"}

\* how a failure message reads in a column of the table
Rendered(msg) == escape_xml(saxutils_escape(msg))

RowKey(r) == <<r.pattern, r.extract>>

CallsOf(stage) == {i \in 1..Len(calls) : calls[i].stage = stage}

\* C1: in the returned table every enumerated record id is in the r_ids of
\* exactly one row (once), no other id is, and the counts sum to the number of
\* records list_records yielded.
C1_EveryRecordInOneGroup ==
  Returned =>
    /\ \A r \in Enumerated :
         Cardinality({<<g, k>> \in (1..NRows) \X (1..Len(records_path)) :
                        k <= Len(Rows[g].r_ids) /\ Rows[g].r_ids[k] = r}) = 1
    /\ \A g \in 1..NRows : \A k \in 1..Len(Rows[g].r_ids) : Rows[g].r_ids[k] \in Enumerated
    /\ SumSeq(Column(Rows, "count")) = Cardinality(Enumerated)

C1_Witness ==
  /\ Returned
  /\ NRows >= 2
  /\ \E g \in 1..NRows : Rows[g].count >= 2

\* C2: in the returned table each row's total is the sum of count over the
\* rows with the same pattern text, so rows sharing a pattern share the total.
C2_TotalIsPerPatternSum ==
  Returned =>
    \A i \in 1..NRows :
      /\ Rows[i].total =
           SumSeq([j \in 1..NRows |->
                     IF Rows[j].pattern = Rows[i].pattern THEN Len(Rows[j].r_ids) ELSE 0])
      /\ \A j \in 1..NRows :
           Rows[j].pattern = Rows[i].pattern => Rows[j].total = Rows[i].total

C2_Witness ==
  /\ Returned
  /\ \E i, j, k \in 1..NRows :
       /\ i # j
       /\ Rows[i].pattern = Rows[j].pattern
       /\ Rows[i].extract # Rows[j].extract
       /\ Rows[k].pattern # Rows[i].pattern

\* C3: an apply failure of an XSLT stage never reaches the caller: the stage
\* returns an _ERROR node whose text is the message, the run does not end with
\* that failure, and in the returned table the row of that record or group
\* shows the message in the affected column, the counts still summing to the
\* number of records.
C3_ApplyFailureContained ==
  /\ error # "XSLTApplyError"
  /\ \A i \in 1..Len(calls) :
       /\ calls[i].raised # "XSLTApplyError"
       /\ calls[i].caught => calls[i].outtag = ERROR_TAG /\ calls[i].outtext = ERR_MSG
  /\ Returned =>
       /\ SumSeq(Column(Rows, "count")) = Cardinality(Enumerated)
       /\ \A i \in 1..Len(calls) :
            calls[i].caught =>
              \E g \in 1..NRows :
                /\ Rows[g][calls[i].col] = Rendered(ERR_MSG)
                /\ IF calls[i].stage = "normalize"
                   THEN InSeq(calls[i].key[1], Rows[g].r_ids)
                   ELSE RowKey(Rows[g]) = calls[i].key

C3_Witness ==
  /\ Returned
  /\ NRows >= 2
  /\ \E i \in CallsOf("convert") : calls[i].caught
  /\ \E i \in CallsOf("normalize") : ~calls[i].caught

\* C4: every stage applied to a sentinel (a node tagged _ERROR) returns it
\* unchanged, raises nothing and evaluates neither path expression nor
\* transform on it; so a group whose transform failed shows the same message
\* in every later column.
C4_SentinelShortCircuits ==
  /\ \A i \in 1..Len(calls) :
       calls[i].sentinel =>
         /\ calls[i].same
         /\ ~calls[i].evald
         /\ calls[i].raised = "none"
  /\ Returned =>
       \A i \in CallsOf("transform") :
         calls[i].caught =>
           \E g \in 1..NRows :
             /\ RowKey(Rows[g]) = calls[i].key
             /\ Rows[g].transform = Rendered(ERR_MSG)
             /\ InSeq("dcat", df.columns) => Rows[g].dcat = Rendered(ERR_MSG)

C4_Witness ==
  /\ Returned
  /\ \E i \in CallsOf("iso_mask") : calls[i].sentinel
  /\ \E i \in CallsOf("convert") : calls[i].sentinel /\ calls[i].outtext = ERR_MSG
  /\ \E i \in CallsOf("dcat_extract") : calls[i].sentinel /\ calls[i].outtext = ERR_MSG
  /\ \E i \in CallsOf("iso_extract") : calls[i].line = 209 /\ calls[i].sentinel

\* C5: transform and convert are applied at most once per distinct (pattern
\* text, extract text) pair, and only after every per-record application (so
\* after grouping); normalize is applied per record, once per column, and once
\* the frame is grouped every enumerated record has had both applications.
C5_ExpensiveStagesOncePerGroup ==
  /\ \A s \in {"transform", "convert"} :
       \A i, j \in CallsOf(s) : i # j => calls[i].key # calls[j].key
  /\ \A s \in {"transform", "convert"} : \A i \in CallsOf(s) :
       /\ Len(calls[i].key) = 2
       /\ \A n \in 1..Len(calls) : Len(calls[n].key) = 1 => n < i
       /\ Cardinality(CallsOf(s)) <= Cardinality(Enumerated)
  /\ \A i, j \in CallsOf("normalize") :
       /\ calls[i].key[1] \in Enumerated
       /\ Len(calls[i].key) = 1
       /\ (i # j /\ calls[i].key = calls[j].key) => calls[i].col # calls[j].col
  /\ pc \in {"L184", "L195", "L197", "L202", "L208", "L211", "L214", "L219", "done"} =>
       \A r \in Enumerated : \A c \in {"pattern", "extract"} :
         \E i \in CallsOf("normalize") : calls[i].key = <<r>> /\ calls[i].col = c

C5_Witness ==
  /\ Returned
  /\ \E g \in 1..NRows :
       /\ Rows[g].count >= 2
       /\ \E i \in CallsOf("transform") : calls[i].key = RowKey(Rows[g])
       /\ \E i \in CallsOf("convert") : calls[i].key = RowKey(Rows[g])

\* C6: a blank or absent optional field disables its stage and the run still
\* completes: the run never fails at a stage whose field is blank or absent.
C6_BlankFieldIsIdentity ==
  pc = "failed" =>
    /\ ~(errline \in {180, 209} /\ IsBlank(args.iso_extract_xpath))
    /\ ~(errline = 181 /\ IsBlank(args.iso_mask_xpath))
    /\ ~(errline = 206 /\ IsBlank(args.dcat_extract_xpath))
    /\ ~(errline = 182 /\ (args.normalizer_path = None \/ ~is_file(args.normalizer_path)))
    /\ ~(errline = 200 /\ (args.transformer_path = None \/ ~is_file(args.transformer_path)))
    /\ ~(errline = 204 /\ (args.converter_path = None \/ ~is_file(args.converter_path)))

\* C7: a corpus that enumerates no record runs to completion, returns a table
\* without rows and prints a count of 0.
C7_EmptyCorpusEmptyTable ==
  (Enumerated = {} /\ pc \notin {"L168", "L176", "L179"}) =>
    /\ pc # "failed"
    /\ NRows = 0
    /\ (pc = "done" => printed = 0)

\* C9: a path expression that does not compile fails the run before any record
\* document is read or parsed and before any stage is applied to a record.
C9_BadPathFailsBeforeRecords ==
  (pc = "failed" /\ error = "XPathEvalError") =>
    /\ nparsed = 0
    /\ calls = <<>>

\* C10: display_tree of a root without children (and without text) is the
\* placeholder NONE.
C10_EmptyRootShowsNONE ==
  \A d \in displayed : d.empty => d.text = NONE_TOKEN

\* C8 as stated: rows are ordered by total descending, then count descending,
\* and rows equal on both keep the order in which their groups' first members
\* were enumerated.
C8_TiesInDiscoveryOrder ==
  Returned =>
    \A i, j \in 1..NRows :
      i < j =>
        \/ Rows[i].total > Rows[j].total
        \/ Rows[i].total = Rows[j].total /\ Rows[i].count > Rows[j].count
        \/ /\ Rows[i].total = Rows[j].total
           /\ Rows[i].count = Rows[j].count
           /\ Rows[i].r_ids[1] < Rows[j].r_ids[1]

\* C8 amended: rows are ordered by total descending, then count descending,
\* and rows equal on both are in ascending order of (pattern text, extract
\* text), the order the grouping produced them in.
C8_TiesInKeyOrder ==
  Returned =>
    \A i, j \in 1..NRows :
      i < j =>
        \/ Rows[i].total > Rows[j].total
        \/ Rows[i].total = Rows[j].total /\ Rows[i].count > Rows[j].count
        \/ /\ Rows[i].total = Rows[j].total
           /\ Rows[i].count = Rows[j].count
           /\ \/ StrLess(Rows[i].pattern, Rows[j].pattern)
              \/ Rows[i].pattern = Rows[j].pattern /\ StrLess(Rows[i].extract, Rows[j].extract)

C8_Witness ==
  /\ Returned
  /\ NRows >= 3
  /\ \E i, j \in 1..NRows :
       /\ i < j
       /\ Rows[i].total = Rows[j].total
       /\ Rows[i].count = Rows[j].count
       /\ Rows[i].r_ids[1] > Rows[j].r_ids[1]
  /\ \E i, j \in 1..NRows :
       /\ i < j
       /\ Rows[i].total > Rows[j].total
       /\ StrLess(Rows[j].pattern, Rows[i].pattern)

====
